---- MODULE Spec2Model ----
(***************************************************************************)
(* Checkpoint storage managers of determined.common.storage: the S3 and    *)
(* the HDFS adapter (s3.py, hdfs.py).  A path or an object key is the      *)
(* sequence of its "/"-separated components, so "d/" is <<"d", "">> and    *)
(* "a/d/g" is <<"a", "d", "g">>.  The local disk and the backend are       *)
(* functions from the paths that exist to what is stored there.  Every     *)
(* call is a small program with a position (pc); one step is one backend   *)
(* or file-system call of the handler.                                     *)
(***************************************************************************)
EXTENDS Integers, Sequences, FiniteSets, TLC

\* ------------------------------------------------------------------ bounds

\* Longest Resource Map (number of relative paths) a behaviour works on.
MaxRes == 2

\* Number of calls and stagings one behaviour makes.
MaxOps == 3

\* ------------------------------------------------------- values and paths

Calls == {1, 2}

StorageIds == {"a", "b"}

\* self._base_path: the staging base (tempfile.gettempdir() or temp_dir).
BasePath == <<"tmp">>

\* A caller's directory outside the staging base.
WorkDir == <<"work">>

\* File contents: byte strings; the length is the size.
Contents == {<<>>, <<1>>, <<1, 2>>}

DirEntry == [dir |-> TRUE, data |-> <<>>]

FileEntry(data) == [dir |-> FALSE, data |-> data]

\* The relative paths of Resource Maps: a file, a directory marker and a
\* file in that directory.
RelPaths == {<<"f">>, <<"d", "">>, <<"d", "g">>}

RECURSIVE SeqsOver(_, _)
SeqsOver(S, n) ==
  IF n = 0 THEN {<<>>}
  ELSE LET shorter == SeqsOver(S, n - 1)
       IN  shorter \cup {Append(s, x) : s \in {t \in shorter : Len(t) = n - 1}, x \in S}

\* metadata.resources.keys(): distinct relative paths in iteration order.
ResourceMaps ==
  {r \in SeqsOver(RelPaths, MaxRes) : \A i, j \in 1..Len(r) : i # j => r[i] # r[j]}

\* rel_path.endswith("/")
EndsWithSlash(rel) == Len(rel) >= 2 /\ rel[Len(rel)] = ""

\* os.path.join(storage_dir, rel_path) for a relative rel_path
Join(dir, rel) == dir \o rel

\* os.path.dirname(abs_path): everything before the last "/"
Dirname(p) == SubSeq(p, 1, Len(p) - 1)

\* The file-system object a path names: "x/d/" names x/d.
Norm(p) == IF Len(p) >= 1 /\ p[Len(p)] = "" THEN SubSeq(p, 1, Len(p) - 1) ELSE p

\* f"{metadata.storage_id}/{rel_path}"
KeyName(sid, rel) == <<sid>> \o rel

IsPrefix(p, q) == Len(p) <= Len(q) /\ SubSeq(q, 1, Len(p)) = p

\* ------------------------------------------------------------ file system

Exists(fs, p) == Norm(p) \in DOMAIN fs

IsDir(fs, p) == Exists(fs, p) /\ fs[Norm(p)].dir

IsFile(fs, p) == Exists(fs, p) /\ ~fs[Norm(p)].dir

\* The tree below dir, by relative path.
Subtree(fs, dir) ==
  LET below == {q \in DOMAIN fs : IsPrefix(dir, q) /\ q # dir}
  IN  [rel \in {SubSeq(q, Len(dir) + 1, Len(q)) : q \in below} |-> fs[dir \o rel]]

\* os.makedirs(p, exist_ok=True)
Makedirs(fs, p) ==
  LET n    == Norm(p)
      pres == {SubSeq(n, 1, k) : k \in 1..Len(n)}
  IN  IF \E q \in pres : q # n /\ IsFile(fs, q)
        THEN [fs |-> fs, err |-> "NotADirectoryError"]
      ELSE IF IsFile(fs, n)
        THEN [fs |-> fs, err |-> "FileExistsError"]
      ELSE [fs  |-> [q \in DOMAIN fs \cup pres |-> IF q \in DOMAIN fs THEN fs[q] ELSE DirEntry],
            err |-> ""]

\* shutil.rmtree(p): p and everything below it
Rmtree(fs, p) == [q \in {r \in DOMAIN fs : ~IsPrefix(Norm(p), r)} |-> fs[q]]

\* Writing a file needs its directory and must not hit a directory.
CanWrite(fs, p) == IsDir(fs, Dirname(p)) /\ ~IsDir(fs, p) /\ ~EndsWithSlash(p)

WriteFile(fs, p, data) ==
  [q \in DOMAIN fs \cup {p} |-> IF q = p THEN FileEntry(data) ELSE fs[q]]

\* fs with the tree t placed at dir (dir itself becomes a directory)
PlaceTree(fs, dir, t) ==
  LET new == {dir} \cup {dir \o rel : rel \in DOMAIN t}
  IN  [q \in DOMAIN fs \cup new |->
         IF q = dir THEN DirEntry
         ELSE IF q \in new THEN t[SubSeq(q, Len(dir) + 1, Len(q))]
         ELSE fs[q]]

\* -------------------------------------------------------------------- state

VARIABLES
  kind,                    \* which adapter the manager is: "s3" or "hdfs"
  _use_minio_workaround,   \* S3StorageManager._use_minio_workaround
  resources,               \* the Resource Map's relative paths, in iteration order
  local,                   \* the local disk
  remote,                  \* the bucket (S3) or the tree under the HDFS root
  call,                    \* the calls in flight, by caller
  prev,                    \* the call that returned last
  conc,                    \* whether callers may overlap their calls
  ops,                     \* calls and stagings made so far
  ctor,                    \* the construction of the manager: __init__ and its probe
  rng,                     \* the state of the process-global random generator
  check_call,              \* the last call of a function of the check module
  version_call             \* the last call of get_version

\* The calls of the harness utilities, which the storage managers leave alone.
utils == <<check_call, version_call>>

vars ==
  <<kind, _use_minio_workaround, resources, local, remote, call, prev, conc, ops, ctor, rng,
    utils>>

\* No function of the check module has been called.
NoCheckCall == [fn |-> "", x |-> "", y |-> "", out |-> ""]

\* get_version has not been called.
\* master_info before the info request: the fields a master reports, empty.
DefaultMasterInfo == [cluster_id |-> "", master_id |-> "", version |-> ""]

\* What api.get(host, "info").json() comes to: the exception raised ("" for
\* none) and the info the master reported.
ApiResult(raises, json) == [raises |-> raises, json |-> json]

\* The dictionary get_version returns.
VersionInfo(client_info, master_info, host) ==
  [client |-> client_info, master |-> master_info, master_address |-> host]

NoVersionInfo == VersionInfo([version |-> ""], DefaultMasterInfo, "")

NoVersionCall ==
  [host |-> "", version |-> "", api |-> ApiResult("", DefaultMasterInfo), pc |-> "none",
   err |-> "", value |-> NoVersionInfo]

\* The error a backend request can raise on its own: the network fails.
BackendErrors == {"EndpointConnectionError"}

Outcomes == {"ok"} \cup BackendErrors

NoEvents == <<>>

Event(ev, path, keys, res) == [ev |-> ev, path |-> path, keys |-> keys, res |-> res]

Metadata(sid, res) == [storage_id |-> sid, resources |-> res]

IdleCall ==
  [op |-> "idle", pc |-> "idle", sid |-> "", dir |-> <<>>, meta |-> Metadata("", <<>>),
   i |-> 0, err |-> "", log |-> NoEvents, fresh |-> FALSE, rng0 |-> 0, drawn |-> 0]

NoPrev == [op |-> "none", meta |-> Metadata("", <<>>), err |-> "", tree |-> <<>>]

StorageDirs == {Join(BasePath, <<s>>) : s \in StorageIds} \cup {WorkDir}

\* What a producer leaves in a staging directory.
Trees ==
  { <<>>,
    [rel \in {<<"f">>, <<"d">>} |-> IF rel = <<"d">> THEN DirEntry ELSE FileEntry(<<1, 2>>)],
    [rel \in {<<"d">>, <<"d", "g">>} |-> IF rel = <<"d">> THEN DirEntry ELSE FileEntry(<<1>>)] }

\* StorageManager._remove_checkpoint_directory(storage_id)
RemoveCheckpointDirectory(fs, storage_id) == Rmtree(fs, Join(BasePath, <<storage_id>>))

\* ----------------------------------------------------- the S3 client (boto3)

\* client.upload_file(abs_path, bucket, key_name): [remote, err]
UploadFile(fs, rem, abs_path, key, out) ==
  IF ~IsFile(fs, abs_path) \/ EndsWithSlash(abs_path)
    THEN [remote |-> rem, err |-> "FileNotFoundError"]
  ELSE IF out # "ok" THEN [remote |-> rem, err |-> out]
  ELSE [remote |-> [k \in DOMAIN rem \cup {key} |->
                      IF k = key THEN FileEntry(fs[abs_path].data) ELSE rem[k]],
        err |-> ""]

\* client.put_object(Bucket=bucket, Key=key_name, Body=b""): [remote, err]
PutEmptyObject(rem, key, out) ==
  IF out # "ok" THEN [remote |-> rem, err |-> out]
  ELSE [remote |-> [k \in DOMAIN rem \cup {key} |-> IF k = key THEN FileEntry(<<>>) ELSE rem[k]],
        err |-> ""]

\* client.download_file(bucket, key_name, abs_path): [fs, err]
DownloadFile(fs, rem, key, abs_path, out) ==
  IF key \notin DOMAIN rem THEN [fs |-> fs, err |-> "ClientError"]
  ELSE IF out # "ok" THEN [fs |-> fs, err |-> out]
  ELSE IF ~CanWrite(fs, abs_path) THEN [fs |-> fs, err |-> "OSError"]
  ELSE [fs |-> WriteFile(fs, abs_path, rem[key].data), err |-> ""]

\* Mutant of DeleteObjects: a key that is not in the bucket makes the request
\* raise.
DeleteObjectsStrict(rem, keys, out) ==
  IF \E j \in 1..Len(keys) : keys[j] \notin DOMAIN rem
    THEN [remote |-> rem, err |-> "NoSuchKey", errors |-> <<>>]
  ELSE IF out \notin {"ok", "Errors"} THEN [remote |-> rem, err |-> out, errors |-> <<>>]
  ELSE [remote |-> [k \in DOMAIN rem \ {keys[j] : j \in 1..Len(keys)} |-> rem[k]],
        err    |-> "",
        errors |-> <<>>]

\* client.delete_objects(Bucket=bucket, Delete={"Objects": chunk}):
\* [remote, err, errors].  The request raises (err), or it completes and its
\* response lists the keys the backend did not delete (errors): none, or, for
\* the outcome "Errors", the first key of the request.
DeleteObjects(rem, keys, out) ==
  IF out \notin {"ok", "Errors"} THEN [remote |-> rem, err |-> out, errors |-> <<>>]
  ELSE LET kept == IF out = "Errors" THEN {keys[1]} ELSE {}
           gone == {keys[j] : j \in 1..Len(keys)} \ kept
       IN  [remote |-> [k \in DOMAIN rem \ gone |-> rem[k]],
            err    |-> "",
            errors |-> IF out = "Errors" THEN <<keys[1]>> ELSE <<>>]

\* --------------------------------------------------- S3StorageManager bodies

\* Mutant of UploadResource: the minio workaround is not looked at, so a
\* zero-byte object is put for every directory marker.
UploadResourceAlwaysPut(workaround, fs, rem, storage_id, storage_dir, rel_path, out) ==
  LET key_name == KeyName(storage_id, rel_path)
      abs_path == Join(storage_dir, rel_path)
  IN  IF EndsWithSlash(rel_path)
        THEN LET r == PutEmptyObject(rem, key_name, out)
             IN  [remote |-> r.remote,
                  events |-> <<Event("put_object", <<>>, <<key_name>>,
                                     IF r.err = "" THEN "ok" ELSE r.err)>>,
                  err    |-> r.err]
      ELSE LET r == UploadFile(fs, rem, abs_path, key_name, out)
           IN  [remote |-> r.remote,
                events |-> <<Event("upload_file", abs_path, <<key_name>>,
                                   IF r.err = "" THEN "ok" ELSE r.err)>>,
                err    |-> r.err]

\* Mutant of UploadResource: an error of upload_file is caught and dropped.
UploadResourceSwallowsError(workaround, fs, rem, storage_id, storage_dir, rel_path, out) ==
  LET key_name == KeyName(storage_id, rel_path)
      abs_path == Join(storage_dir, rel_path)
  IN  IF EndsWithSlash(rel_path)
        THEN IF ~workaround
               THEN LET r == PutEmptyObject(rem, key_name, out)
                    IN  [remote |-> r.remote,
                         events |-> <<Event("put_object", <<>>, <<key_name>>,
                                            IF r.err = "" THEN "ok" ELSE r.err)>>,
                         err    |-> r.err]
             ELSE [remote |-> rem, events |-> NoEvents, err |-> ""]
      ELSE LET r == UploadFile(fs, rem, abs_path, key_name, out)
           IN  [remote |-> r.remote,
                events |-> <<Event("upload_file", abs_path, <<key_name>>,
                                   IF r.err = "" THEN "ok" ELSE r.err)>>,
                err    |-> ""]

\* Mutant of UploadResource: a failed upload_file is tried once more.
UploadResourceRetries(workaround, fs, rem, storage_id, storage_dir, rel_path, out) ==
  LET key_name == KeyName(storage_id, rel_path)
      abs_path == Join(storage_dir, rel_path)
  IN  IF EndsWithSlash(rel_path)
        THEN IF ~workaround
               THEN LET r == PutEmptyObject(rem, key_name, out)
                    IN  [remote |-> r.remote,
                         events |-> <<Event("put_object", <<>>, <<key_name>>,
                                            IF r.err = "" THEN "ok" ELSE r.err)>>,
                         err    |-> r.err]
             ELSE [remote |-> rem, events |-> NoEvents, err |-> ""]
      ELSE LET r  == UploadFile(fs, rem, abs_path, key_name, out)
               r2 == UploadFile(fs, rem, abs_path, key_name, "ok")
           IN  IF r.err = ""
                 THEN [remote |-> r.remote,
                       events |-> <<Event("upload_file", abs_path, <<key_name>>, "ok")>>,
                       err    |-> ""]
                 ELSE [remote |-> r2.remote,
                       events |-> <<Event("upload_file", abs_path, <<key_name>>, r.err),
                                    Event("upload_file", abs_path, <<key_name>>,
                                          IF r2.err = "" THEN "ok" ELSE r2.err)>>,
                       err    |-> r2.err]

\* One pass of the loop of upload: [remote, events, err]
UploadResource(workaround, fs, rem, storage_id, storage_dir, rel_path, out) ==
  LET key_name == KeyName(storage_id, rel_path)
      abs_path == Join(storage_dir, rel_path)
  IN  IF EndsWithSlash(rel_path)
        THEN IF ~workaround
               THEN LET r == PutEmptyObject(rem, key_name, out)
                    IN  [remote |-> r.remote,
                         events |-> <<Event("put_object", <<>>, <<key_name>>,
                                            IF r.err = "" THEN "ok" ELSE r.err)>>,
                         err    |-> r.err]
             ELSE [remote |-> rem, events |-> NoEvents, err |-> ""]
      ELSE LET r == UploadFile(fs, rem, abs_path, key_name, out)
           IN  [remote |-> r.remote,
                events |-> <<Event("upload_file", abs_path, <<key_name>>,
                                   IF r.err = "" THEN "ok" ELSE r.err)>>,
                err    |-> r.err]

\* Mutant of DownloadResource: a directory marker is skipped before its
\* directory is made.
DownloadResourceSkipsMarkerDir(fs, rem, storage_id, storage_dir, rel_path, out) ==
  LET abs_path == Join(storage_dir, rel_path)
      made     == Makedirs(fs, Dirname(abs_path))
      mkev     == Event("makedirs", Dirname(abs_path), <<>>,
                        IF made.err = "" THEN "ok" ELSE made.err)
      key_name == KeyName(storage_id, rel_path)
  IN  IF EndsWithSlash(rel_path) THEN [fs |-> fs, events |-> NoEvents, err |-> ""]
      ELSE IF made.err # "" THEN [fs |-> fs, events |-> <<mkev>>, err |-> made.err]
      ELSE LET r == DownloadFile(made.fs, rem, key_name, abs_path, out)
           IN  [fs     |-> r.fs,
                events |-> <<mkev, Event("download_file", abs_path, <<key_name>>,
                                         IF r.err = "" THEN "ok" ELSE r.err)>>,
                err    |-> r.err]

\* Mutant of DownloadResource: a directory marker is fetched like a file
\* (the "continue" is missing).
DownloadResourceFetchesMarker(fs, rem, storage_id, storage_dir, rel_path, out) ==
  LET abs_path == Join(storage_dir, rel_path)
      made     == Makedirs(fs, Dirname(abs_path))
      mkev     == Event("makedirs", Dirname(abs_path), <<>>,
                        IF made.err = "" THEN "ok" ELSE made.err)
      key_name == KeyName(storage_id, rel_path)
  IN  IF made.err # "" THEN [fs |-> fs, events |-> <<mkev>>, err |-> made.err]
      ELSE LET r == DownloadFile(made.fs, rem, key_name, abs_path, out)
           IN  [fs     |-> r.fs,
                events |-> <<mkev, Event("download_file", abs_path, <<key_name>>,
                                         IF r.err = "" THEN "ok" ELSE r.err)>>,
                err    |-> r.err]

\* One pass of the loop of download: [fs, events, err]
DownloadResource(fs, rem, storage_id, storage_dir, rel_path, out) ==
  LET abs_path == Join(storage_dir, rel_path)
      made     == Makedirs(fs, Dirname(abs_path))
      mkev     == Event("makedirs", Dirname(abs_path), <<>>,
                        IF made.err = "" THEN "ok" ELSE made.err)
      key_name == KeyName(storage_id, rel_path)
  IN  IF made.err # "" THEN [fs |-> fs, events |-> <<mkev>>, err |-> made.err]
      ELSE IF EndsWithSlash(rel_path) THEN [fs |-> made.fs, events |-> <<mkev>>, err |-> ""]
      ELSE LET r == DownloadFile(made.fs, rem, key_name, abs_path, out)
           IN  [fs     |-> r.fs,
                events |-> <<mkev, Event("download_file", abs_path, <<key_name>>,
                                         IF r.err = "" THEN "ok" ELSE r.err)>>,
                err    |-> r.err]

\* The directory post_store_path removes in its finally block.
PostStoreCleanupId(storage_id, storage_dir, metadata) == metadata.storage_id

\* The directory restore_path removes in its finally block.
RestoreCleanupId(metadata) == metadata.storage_id

\* finally: self._remove_checkpoint_directory(metadata.storage_id), whatever
\* the transfer raised (err).
PostStoreFinally(fs, storage_id, storage_dir, metadata, err) ==
  RemoveCheckpointDirectory(fs, PostStoreCleanupId(storage_id, storage_dir, metadata))

\* Mutant of RestoreFinally: the removal follows the yield without a
\* try/finally, so it is skipped when the code inside the scope raises.
RestoreFinallyOnSuccessOnly(fs, metadata, err) ==
  IF err = "" THEN RemoveCheckpointDirectory(fs, metadata.storage_id) ELSE fs

\* finally: self._remove_checkpoint_directory(metadata.storage_id), whatever
\* the code inside the scope raised (err).
RestoreFinally(fs, metadata, err) ==
  RemoveCheckpointDirectory(fs, RestoreCleanupId(metadata))

\* Mutant of AfterTransfer: post_store_path removes the staging directory
\* after the upload without a try/finally, so an error skips the removal.
AfterTransferNoFinally(op, err) ==
  CASE op = "post_store_path" -> IF err = "" THEN "finally" ELSE "done"
    [] op = "restore_path"    -> IF err = "" THEN "yielded" ELSE "done"
    [] OTHER                  -> "done"

\* Where a handler goes once its transfer loop is over or has raised.
AfterTransfer(op, err) ==
  CASE op = "post_store_path" -> "finally"
    [] op = "restore_path"    -> IF err = "" THEN "yielded" ELSE "done"
    [] OTHER                  -> "done"

\* ------------------------------------------------------------- util helpers

\* S3 delete_objects has a limit of 1000 objects.
DeleteBatch == 1000

Min(a, b) == IF a <= b THEN a ELSE b

\* util.chunks(lst, chunk_size): lst[i : i + chunk_size] for i = 0, chunk_size, ...
Chunks(lst, chunk_size) ==
  [k \in 1..((Len(lst) + chunk_size - 1) \div chunk_size) |->
     SubSeq(lst, (k - 1) * chunk_size + 1, Min(k * chunk_size, Len(lst)))]

\* [{"Key": f"{metadata.storage_id}/{rel_path}"} for rel_path in metadata.resources.keys()]
DeleteKeys(metadata) ==
  [j \in 1..Len(metadata.resources) |-> KeyName(metadata.storage_id, metadata.resources[j])]

\* Mutant of DeleteRequests: every key goes into one request.
DeleteRequestsUnbatched(metadata) ==
  IF Len(metadata.resources) = 0 THEN <<>> ELSE <<DeleteKeys(metadata)>>

\* The chunks the loop of delete goes through: util.chunks(objects, 1000)
DeleteRequests(metadata) == Chunks(DeleteKeys(metadata), DeleteBatch)

\* ------------------------------------------------ S3StorageManager.__init__

\* The endpoint_url argument: None, or the address of an S3-compatible server.
EndpointUrls == {"None", "http://minio:9000"}

\* What requests.get(endpoint_url) can raise: Python's own ConnectionError and
\* a subclass of it, and the exceptions of the requests library, which derive
\* from requests.exceptions.RequestException (an IOError).
BuiltinConnectionErrors == {"ConnectionError", "ConnectionRefusedError"}

RequestsExceptions == {"requests.exceptions.ConnectionError", "requests.exceptions.Timeout"}

\* The Server header of a response ("": the response has none).
ServerHeaders == {"", "minio", "MinIO", "nginx"}

\* What a probe can come to: an exception, or a response with its header.
ProbeResults ==
  {[raised |-> e, server |-> ""] : e \in BuiltinConnectionErrors \cup RequestsExceptions}
    \cup {[raised |-> "", server |-> h] : h \in ServerHeaders}

\* str.lower() on the header values told apart.
Lower(str) == IF str = "MinIO" THEN "minio" ELSE str

\* except ConnectionError: the name is Python's builtin, no import rebinds it.
ProbeCaught(exc) == exc \in BuiltinConnectionErrors

\* Mutant of ProbeEndpoint: the Server header is compared as it comes, without
\* lower().
ProbeEndpointCaseSensitive(endpoint_url, get) ==
  IF endpoint_url = "None" THEN [flag |-> FALSE, err |-> "", probes |-> <<>>]
  ELSE IF get.raised # ""
    THEN [flag   |-> FALSE,
          err    |-> IF ProbeCaught(get.raised) THEN "" ELSE get.raised,
          probes |-> <<get>>]
  ELSE [flag |-> get.server = "minio", err |-> "", probes |-> <<get>>]

\* The part of __init__ that sets _use_minio_workaround: [flag, err, probes].
ProbeEndpoint(endpoint_url, get) ==
  IF endpoint_url = "None" THEN [flag |-> FALSE, err |-> "", probes |-> <<>>]
  ELSE IF get.raised # ""
    THEN [flag   |-> FALSE,
          err    |-> IF ProbeCaught(get.raised) THEN "" ELSE get.raised,
          probes |-> <<get>>]
  ELSE [flag |-> Lower(get.server) = "minio", err |-> "", probes |-> <<get>>]

\* A manager before __init__ has run.
NotConstructed == [pc |-> "new", endpoint_url |-> "None", probes |-> <<>>, err |-> ""]

\* A constructed manager of the given adapter and workaround flag: an S3
\* manager has the flag set after a MinIO server answered its probe, and
\* unset when it was given no endpoint_url.
Constructed(adapter, flag) ==
  IF adapter = "s3" /\ flag
    THEN [pc |-> "ready", endpoint_url |-> "http://minio:9000",
          probes |-> <<[raised |-> "", server |-> "MinIO"]>>, err |-> ""]
    ELSE [pc |-> "ready", endpoint_url |-> "None", probes |-> <<>>, err |-> ""]

\* ----------------------------------------------- util.preserve_random_state

\* How many states of the process-global random generator are told apart.
RngStates == 2

\* Most numbers a client library draws from the generator during one request.
MaxDraws == 1

\* The generator after n numbers were drawn from it.
Draw(state, n) == (state + n) % RngStates

\* Mutant of Decorated: delete of the S3 manager is not decorated.
DecoratedButS3Delete(adapter, fn) ==
  IF adapter = "s3" THEN fn \in {"upload", "download"}
  ELSE fn \in {"post_store_path", "download", "delete"}

\* The methods defined under @util.preserve_random_state.
Decorated(adapter, fn) ==
  IF adapter = "s3" THEN fn \in {"upload", "download", "delete"}
  ELSE fn \in {"post_store_path", "download", "delete"}

\* The generator when method fn returns or raises: a decorated method puts
\* back the state captured when it was entered (saved).
OnExit(adapter, fn, saved, state) == IF Decorated(adapter, fn) THEN saved ELSE state

\* The step sent a request to the backend client.
ClientCalled(events) ==
  \E j \in 1..Len(events) :
    events[j].ev \in {"upload_file", "put_object", "download_file", "delete_objects",
                      "hdfs_upload", "hdfs_download", "hdfs_delete"}

\* ------------------------------------------------------------------ actions

AllIdle == \A c \in Calls : call[c].pc = "idle"

\* A caller may start a call when it has none in flight; unless callers
\* overlap, there is one caller, making one call at a time.
CanStart(c) ==
  /\ ctor.pc = "ready"
  /\ ops < MaxOps
  /\ call[c].pc = "idle"
  /\ conc \/ (AllIdle /\ c = 1)

Begin(c, rec) ==
  /\ call' = [call EXCEPT ![c] = [rec EXCEPT !.rng0 = rng]]
  /\ ops' = ops + 1
  /\ UNCHANGED <<kind, _use_minio_workaround, resources, ctor, remote, prev, conc, rng, utils>>

\* S3StorageManager(bucket, endpoint_url=endpoint_url): __init__ runs, and
\* the probing GET comes to get.
S3Init(endpoint_url, get) ==
  /\ kind = "s3"
  /\ ctor.pc = "new"
  /\ LET r == ProbeEndpoint(endpoint_url, get)
     IN  /\ _use_minio_workaround' = r.flag
         /\ ctor' = [pc |-> IF r.err = "" THEN "ready" ELSE "raised",
                     endpoint_url |-> endpoint_url, probes |-> r.probes, err |-> r.err]
  /\ UNCHANGED <<kind, resources, local, remote, call, prev, conc, ops, rng, utils>>

\* The producer fills a staging directory (outside any call on it).
Stage(dir, t) ==
  /\ ops < MaxOps
  /\ AllIdle
  /\ local' = PlaceTree(Rmtree(local, dir), dir, t)
  /\ ops' = ops + 1
  /\ UNCHANGED <<kind, _use_minio_workaround, resources, ctor, remote, call, prev, conc, rng, utils>>

\* post_store_path(storage_id, storage_dir, metadata) is entered.
StartPostStorePath(c, storage_id, storage_dir, sid) ==
  /\ CanStart(c)
  /\ Begin(c, [IdleCall EXCEPT
                 !.op = "post_store_path", !.sid = storage_id, !.dir = storage_dir,
                 !.meta = Metadata(sid, resources), !.i = 1,
                 !.pc = IF kind = "s3" /\ resources = <<>> THEN "finally" ELSE "upload"])
  /\ UNCHANGED local

\* S3 upload(metadata, storage_dir) is called directly.
StartUpload(c, sid, storage_dir) ==
  /\ kind = "s3"
  /\ CanStart(c)
  /\ Begin(c, [IdleCall EXCEPT
                 !.op = "upload", !.dir = storage_dir, !.meta = Metadata(sid, resources),
                 !.i = 1, !.pc = IF resources = <<>> THEN "done" ELSE "upload"])
  /\ UNCHANGED local

\* Mutant of AfterMakedirs: an error of os.makedirs is dropped and the download
\* goes ahead.
AfterMakedirsIgnoresError(err, res) == IF res = <<>> THEN "yielded" ELSE "download"

\* Where S3 restore_path goes after os.makedirs(storage_dir, exist_ok=True):
\* an exception leaves the function (the call stands before the try), else
\* download runs, which makes no pass of its loop on an empty Resource Map.
AfterMakedirs(err, res) ==
  IF err # "" THEN "done" ELSE IF res = <<>> THEN "yielded" ELSE "download"

\* restore_path(metadata) is entered: S3 creates the staging subdirectory
\* first (fsout: whether the disk lets it), HDFS goes straight to download.
StartRestorePath(c, sid, fsout) ==
  /\ CanStart(c)
  /\ LET storage_dir == Join(BasePath, <<sid>>)
         made == IF fsout # "ok" THEN [fs |-> local, err |-> fsout]
                 ELSE Makedirs(local, storage_dir)
         rec  == [IdleCall EXCEPT !.op = "restore_path", !.dir = storage_dir,
                                  !.meta = Metadata(sid, resources), !.i = 1]
     IN  IF kind = "s3"
           THEN /\ local' = made.fs
                /\ Begin(c, [rec EXCEPT
                      !.log = <<Event("makedirs", storage_dir, <<>>,
                                      IF made.err = "" THEN "ok" ELSE made.err)>>,
                      !.err = made.err,
                      !.pc = AfterMakedirs(made.err, resources)])
         ELSE /\ fsout = "ok"
              /\ local' = local
              /\ Begin(c, [rec EXCEPT !.pc = "download"])

\* download is called directly: S3 download(metadata, storage_dir), HDFS
\* download(metadata).
StartDownload(c, sid, storage_dir) ==
  /\ CanStart(c)
  /\ kind = "hdfs" => storage_dir = Join(BasePath, <<sid>>)
  /\ Begin(c, [IdleCall EXCEPT
                 !.op = "download", !.dir = storage_dir, !.meta = Metadata(sid, resources),
                 !.i = 1, !.fresh = (Subtree(local, storage_dir) = <<>>),
                 !.pc = IF kind = "s3" /\ resources = <<>> THEN "done" ELSE "download"])
  /\ UNCHANGED local

\* delete(metadata) is entered.
StartDelete(c, sid) ==
  /\ CanStart(c)
  /\ Begin(c, [IdleCall EXCEPT
                 !.op = "delete", !.meta = Metadata(sid, resources), !.i = 1,
                 !.pc = IF kind = "s3" /\ resources = <<>> THEN "done" ELSE "delete"])
  /\ UNCHANGED local

\* The loop of S3 upload handles resource i.
S3UploadStep(c, out, draws) ==
  /\ kind = "s3"
  /\ call[c].pc = "upload"
  /\ LET k    == call[c]
         r    == UploadResource(_use_minio_workaround, local, remote, k.meta.storage_id,
                                k.dir, k.meta.resources[k.i], out)
         more == r.err = "" /\ k.i < Len(k.meta.resources)
     IN  /\ draws > 0 => ClientCalled(r.events)
         /\ remote' = r.remote
         /\ rng' = IF more THEN Draw(rng, draws)
                   ELSE OnExit("s3", "upload", k.rng0, Draw(rng, draws))
         /\ call' = [call EXCEPT ![c] =
               [k EXCEPT !.log = k.log \o r.events,
                         !.err = r.err,
                         !.i = k.i + 1,
                         !.drawn = k.drawn + draws,
                         !.pc = IF more THEN "upload" ELSE AfterTransfer(k.op, r.err)]]
  /\ UNCHANGED <<kind, _use_minio_workaround, resources, ctor, local, prev, conc, ops, utils>>

\* The loop of S3 download handles resource i.
S3DownloadStep(c, out, draws) ==
  /\ kind = "s3"
  /\ call[c].pc = "download"
  /\ LET k    == call[c]
         r    == DownloadResource(local, remote, k.meta.storage_id, k.dir,
                                  k.meta.resources[k.i], out)
         more == r.err = "" /\ k.i < Len(k.meta.resources)
     IN  /\ draws > 0 => ClientCalled(r.events)
         /\ local' = r.fs
         /\ rng' = IF more THEN Draw(rng, draws)
                   ELSE OnExit("s3", "download", k.rng0, Draw(rng, draws))
         /\ call' = [call EXCEPT ![c] =
               [k EXCEPT !.log = k.log \o r.events,
                         !.err = r.err,
                         !.i = k.i + 1,
                         !.drawn = k.drawn + draws,
                         !.pc = IF more THEN "download" ELSE AfterTransfer(k.op, r.err)]]
  /\ UNCHANGED <<kind, _use_minio_workaround, resources, ctor, remote, prev, conc, ops, utils>>

\* What delete_objects may do: the outcomes of any backend call, or a
\* response that reports per-key errors.
DeleteOutcomes == Outcomes \cup {"Errors"}

\* Mutant of DeleteLoopNext: a failed request does not end the loop.
DeleteLoopNextSkipsFailure(err, i, n) == IF i < n THEN "delete" ELSE "done"

\* Where delete goes after request i of n: an exception leaves the for loop
\* and the function, otherwise the next chunk is sent.
DeleteLoopNext(err, i, n) == IF err = "" /\ i < n THEN "delete" ELSE "done"

\* The loop of S3 delete sends chunk i; the response is not looked at.
S3DeleteStep(c, out, draws) ==
  /\ kind = "s3"
  /\ call[c].pc = "delete"
  /\ LET k      == call[c]
         chunks == DeleteRequests(k.meta)
         r      == DeleteObjects(remote, chunks[k.i], out)
         next   == DeleteLoopNext(r.err, k.i, Len(chunks))
     IN  /\ remote' = r.remote
         /\ rng' = IF next = "delete" THEN Draw(rng, draws)
                   ELSE OnExit("s3", "delete", k.rng0, Draw(rng, draws))
         /\ call' = [call EXCEPT ![c] =
               [k EXCEPT !.log = Append(k.log, Event("delete_objects", <<>>, chunks[k.i],
                                                     IF r.err # "" THEN r.err
                                                     ELSE IF r.errors # <<>> THEN "Errors"
                                                     ELSE "ok")),
                         !.err = r.err,
                         !.i = k.i + 1,
                         !.drawn = k.drawn + draws,
                         !.pc = next]]
  /\ UNCHANGED <<kind, _use_minio_workaround, resources, ctor, local, prev, conc, ops, utils>>

\* ------------------------------------------------ the HDFS client (hdfs lib)

Last(p) == p[Len(p)]

\* The hdfs_path argument post_store_path hands to client.upload: the
\* metadata object itself, which is no path string.
HdfsUploadPath(storage_id, storage_dir, metadata) ==
  [str |-> FALSE, path |-> <<"StorageMetadata">>]

\* client.upload(hdfs_path, local_path): [remote, err].  An argument that is
\* no string is rejected, or taken by its text (how).
HdfsClientUpload(fs, rem, hdfs_path, local_path, out, how) ==
  LET target == IF IsDir(rem, hdfs_path.path)
                  THEN hdfs_path.path \o <<Last(local_path)>> ELSE hdfs_path.path
  IN  IF ~hdfs_path.str /\ how = "reject" THEN [remote |-> rem, err |-> "TypeError"]
      ELSE IF ~Exists(fs, local_path) \/ Exists(rem, target)
        THEN [remote |-> rem, err |-> "HdfsError"]
      ELSE IF out # "ok" THEN [remote |-> rem, err |-> out]
      ELSE [remote |-> IF IsDir(fs, local_path)
                         THEN PlaceTree(rem, target, Subtree(fs, local_path))
                         ELSE WriteFile(rem, target, fs[local_path].data),
            err |-> ""]

\* client.download(hdfs_path, local_path, overwrite=True): [fs, err].  A
\* failed transfer may leave the target directory behind (left).
HdfsClientDownload(fs, rem, hdfs_path, local_path, out, left) ==
  LET target == IF IsDir(fs, local_path) THEN local_path \o <<Last(hdfs_path)>> ELSE local_path
  IN  IF ~Exists(rem, hdfs_path) THEN [fs |-> fs, err |-> "HdfsError"]
      ELSE IF out # "ok"
        THEN [fs  |-> IF left /\ ~Exists(fs, target) THEN PlaceTree(fs, target, <<>>) ELSE fs,
              err |-> out]
      ELSE [fs  |-> IF IsDir(rem, hdfs_path)
                      THEN PlaceTree(Rmtree(fs, target), target, Subtree(rem, hdfs_path))
                      ELSE WriteFile(Rmtree(fs, target), target, rem[hdfs_path].data),
            err |-> ""]

\* client.delete(hdfs_path, recursive=True): [remote, err]
HdfsClientDelete(rem, hdfs_path, out) ==
  IF out # "ok" THEN [remote |-> rem, err |-> out]
  ELSE [remote |-> Rmtree(rem, hdfs_path), err |-> ""]

\* ------------------------------------------------- HDFSStorageManager steps

\* post_store_path: result = self.client.upload(metadata, storage_dir)
HdfsUploadStep(c, out, how, draws) ==
  /\ kind = "hdfs"
  /\ call[c].pc = "upload"
  /\ LET k    == call[c]
         path == HdfsUploadPath(k.sid, k.dir, k.meta)
         r    == HdfsClientUpload(local, remote, path, k.dir, out, how)
     IN  /\ remote' = r.remote
         /\ rng' = Draw(rng, draws)
         /\ call' = [call EXCEPT ![c] =
               [k EXCEPT !.log = Append(k.log, Event("hdfs_upload", k.dir, <<path.path>>,
                                                     IF r.err = "" THEN "ok" ELSE r.err)),
                         !.err = r.err,
                         !.drawn = k.drawn + draws,
                         !.pc = AfterTransfer(k.op, r.err)]]
  /\ UNCHANGED <<kind, _use_minio_workaround, resources, ctor, local, prev, conc, ops, utils>>

\* download: self.client.download(metadata.storage_id, self._base_path, overwrite=True)
HdfsDownloadStep(c, out, left, draws) ==
  /\ kind = "hdfs"
  /\ call[c].pc = "download"
  /\ LET k == call[c]
         r == HdfsClientDownload(local, remote, <<k.meta.storage_id>>, BasePath, out, left)
     IN  /\ local' = r.fs
         /\ rng' = OnExit("hdfs", "download", k.rng0, Draw(rng, draws))
         /\ call' = [call EXCEPT ![c] =
               [k EXCEPT !.log = Append(k.log, Event("hdfs_download", BasePath,
                                                     << <<k.meta.storage_id>> >>,
                                                     IF r.err = "" THEN "ok" ELSE r.err)),
                         !.err = r.err,
                         !.drawn = k.drawn + draws,
                         !.pc = AfterTransfer(k.op, r.err)]]
  /\ UNCHANGED <<kind, _use_minio_workaround, resources, ctor, remote, prev, conc, ops, utils>>

\* delete: self.client.delete(metadata.storage_id, recursive=True)
HdfsDeleteStep(c, out, draws) ==
  /\ kind = "hdfs"
  /\ call[c].pc = "delete"
  /\ LET k == call[c]
         r == HdfsClientDelete(remote, <<k.meta.storage_id>>, out)
     IN  /\ remote' = r.remote
         /\ rng' = OnExit("hdfs", "delete", k.rng0, Draw(rng, draws))
         /\ call' = [call EXCEPT ![c] =
               [k EXCEPT !.log = Append(k.log, Event("hdfs_delete", <<>>,
                                                     << <<k.meta.storage_id>> >>,
                                                     IF r.err = "" THEN "ok" ELSE r.err)),
                         !.err = r.err,
                         !.drawn = k.drawn + draws,
                         !.pc = "done"]]
  /\ UNCHANGED <<kind, _use_minio_workaround, resources, ctor, local, prev, conc, ops, utils>>

\* ------------------------------------------------ scope, cleanup and return

\* The caller's code inside the restore_path scope ends: normally (body = "")
\* or by raising.
ScopeExit(c, body) ==
  /\ call[c].pc = "yielded"
  /\ call' = [call EXCEPT ![c].pc = "finally", ![c].err = body]
  /\ UNCHANGED <<kind, _use_minio_workaround, resources, ctor, local, remote, prev, conc, ops,
                 rng, utils>>

\* The finally block of post_store_path and of restore_path.
Finally(c) ==
  /\ call[c].pc = "finally"
  /\ LET k  == call[c]
         id == IF k.op = "post_store_path"
                 THEN PostStoreCleanupId(k.sid, k.dir, k.meta)
                 ELSE RestoreCleanupId(k.meta)
     IN  /\ local' = IF k.op = "post_store_path"
                       THEN PostStoreFinally(local, k.sid, k.dir, k.meta, k.err)
                       ELSE RestoreFinally(local, k.meta, k.err)
         /\ rng' = OnExit(kind, k.op, k.rng0, rng)
         /\ call' = [call EXCEPT ![c] =
               [k EXCEPT !.log = Append(k.log, Event("rmtree", Join(BasePath, <<id>>),
                                                     <<>>, "ok")),
                         !.pc = "done"]]
  /\ UNCHANGED <<kind, _use_minio_workaround, resources, ctor, remote, prev, conc, ops, utils>>

\* The call has returned or raised (err); the caller takes the result.
Return(c) ==
  /\ call[c].pc = "done"
  /\ prev' = [op   |-> call[c].op,
              meta |-> call[c].meta,
              err  |-> call[c].err,
              tree |-> IF call[c].op = "upload" THEN Subtree(local, call[c].dir) ELSE <<>>]
  /\ call' = [call EXCEPT ![c] = IdleCall]
  /\ UNCHANGED <<kind, _use_minio_workaround, resources, ctor, local, remote, conc, ops, rng, utils>>

\* ------------------------------------------------------------ specification

EmptyDisk == [q \in {BasePath} |-> DirEntry]

\* What the HDFS root may hold before the manager's first call.
HdfsSeeds == {<<>>} \cup {PlaceTree(<<>>, <<"a">>, t) : t \in Trees \ {<<>>}}

Init ==
  /\ kind \in {"s3", "hdfs"}
  /\ _use_minio_workaround \in (IF kind = "s3" THEN BOOLEAN ELSE {FALSE})
  /\ resources \in ResourceMaps
  /\ local = EmptyDisk
  /\ remote \in (IF kind = "s3" THEN {<<>>} ELSE HdfsSeeds)
  /\ call = [c \in Calls |-> IdleCall]
  /\ prev = NoPrev
  /\ conc = FALSE
  /\ ops = 0
  /\ ctor = Constructed(kind, _use_minio_workaround)
  /\ rng = 0
  /\ check_call = NoCheckCall
  /\ version_call = NoVersionCall

\* The checkpoints the callers address: one checkpoint unless callers overlap.
MetaIds == IF conc THEN StorageIds ELSE {"a"}

Next ==
  \/ \E d \in StorageDirs, t \in Trees : Stage(d, t)
  \/ \E c \in Calls, a \in StorageIds, d \in StorageDirs, s \in MetaIds :
       StartPostStorePath(c, a, d, s)
  \/ \E c \in Calls, s \in MetaIds, d \in StorageDirs : StartUpload(c, s, d)
  \/ \E c \in Calls, s \in MetaIds, f \in {"ok", "OSError"} : StartRestorePath(c, s, f)
  \/ \E c \in Calls, s \in MetaIds, d \in StorageDirs : StartDownload(c, s, d)
  \/ \E c \in Calls, s \in MetaIds : StartDelete(c, s)
  \/ \E c \in Calls, o \in Outcomes : S3UploadStep(c, o, 0)
  \/ \E c \in Calls, o \in Outcomes : S3DownloadStep(c, o, 0)
  \/ \E c \in Calls, o \in DeleteOutcomes : S3DeleteStep(c, o, 0)
  \/ \E c \in Calls, o \in Outcomes, h \in {"reject", "text"} : HdfsUploadStep(c, o, h, 0)
  \/ \E c \in Calls, o \in Outcomes, l \in BOOLEAN : HdfsDownloadStep(c, o, l, 0)
  \/ \E c \in Calls, o \in Outcomes : HdfsDeleteStep(c, o, 0)
  \/ \E c \in Calls, b \in {"", "BodyError"} : ScopeExit(c, b)
  \/ \E c \in Calls : Finally(c)
  \/ \E c \in Calls : Return(c)

Spec == Init /\ [][Next]_vars

\* ------------------------------------- delete of large Resource Maps (S3)

\* Longest Resource Map handed to delete.
MaxDeleteLen == 2500

DeleteSizes ==
  {0, 1, DeleteBatch - 1, DeleteBatch, DeleteBatch + 1, 2 * DeleteBatch, 2 * DeleteBatch + 1,
   MaxDeleteLen}

\* A Resource Map of n files "1", "2", ..., "n".
BigMap(n) == [j \in 1..n |-> <<ToString(j)>>]

\* The bucket holding every object of the checkpoint "a" of a Resource Map.
FullBucket(res) ==
  [key \in {KeyName("a", res[j]) : j \in 1..Len(res)} |-> FileEntry(<<1>>)]

InitDelete ==
  /\ kind = "s3"
  /\ _use_minio_workaround = FALSE
  /\ resources \in {BigMap(n) : n \in DeleteSizes}
  /\ local = EmptyDisk
  /\ remote \in {<<>>, FullBucket(resources)}
  /\ call = [c \in Calls |-> IdleCall]
  /\ prev = NoPrev
  /\ conc = FALSE
  /\ ops = 0
  /\ ctor = Constructed(kind, _use_minio_workaround)
  /\ rng = 0
  /\ check_call = NoCheckCall
  /\ version_call = NoVersionCall

NextDelete ==
  \/ \E c \in Calls, s \in MetaIds : StartDelete(c, s)
  \/ \E c \in Calls, o \in DeleteOutcomes : S3DeleteStep(c, o, 0)
  \/ \E c \in Calls : Return(c)

SpecDelete == InitDelete /\ [][NextDelete]_vars

\* ----------------------------------------- construction of the S3 manager

\* The Resource Maps of the manager under construction: a file, a directory
\* marker, and a directory marker with a file below it.
ProbeMaps == {<< <<"f">> >>, << <<"d", "">> >>, << <<"d", "">>, <<"d", "g">> >>}

InitProbe ==
  /\ kind = "s3"
  /\ _use_minio_workaround = FALSE
  /\ resources \in ProbeMaps
  /\ local = EmptyDisk
  /\ remote = <<>>
  /\ call = [c \in Calls |-> IdleCall]
  /\ prev = NoPrev
  /\ conc = FALSE
  /\ ops = 0
  /\ ctor = NotConstructed
  /\ rng = 0
  /\ check_call = NoCheckCall
  /\ version_call = NoVersionCall

NextProbe ==
  \/ \E u \in EndpointUrls, g \in ProbeResults : S3Init(u, g)
  \/ \E c \in Calls, a \in StorageIds, d \in StorageDirs, s \in MetaIds :
       StartPostStorePath(c, a, d, s)
  \/ \E c \in Calls, s \in MetaIds, d \in StorageDirs : StartUpload(c, s, d)
  \/ \E c \in Calls, s \in MetaIds, f \in {"ok", "OSError"} : StartRestorePath(c, s, f)
  \/ \E c \in Calls, s \in MetaIds, d \in StorageDirs : StartDownload(c, s, d)
  \/ \E c \in Calls, s \in MetaIds : StartDelete(c, s)
  \/ \E c \in Calls, o \in Outcomes : S3UploadStep(c, o, 0)
  \/ \E c \in Calls, o \in Outcomes : S3DownloadStep(c, o, 0)
  \/ \E c \in Calls, o \in DeleteOutcomes : S3DeleteStep(c, o, 0)
  \/ \E c \in Calls, b \in {"", "BodyError"} : ScopeExit(c, b)
  \/ \E c \in Calls : Finally(c)
  \/ \E c \in Calls : Return(c)

SpecProbe == InitProbe /\ [][NextProbe]_vars

\* ------------------------------- clients that draw from the global generator

\* The Resource Maps of the calls: a file, a directory marker and a file.
RngMaps == {<< <<"f">> >>, << <<"d", "">>, <<"f">> >>}

InitRng ==
  /\ kind \in {"s3", "hdfs"}
  /\ _use_minio_workaround = FALSE
  /\ resources \in RngMaps
  /\ local = EmptyDisk
  /\ remote \in (IF kind = "s3" THEN {<<>>} ELSE HdfsSeeds)
  /\ call = [c \in Calls |-> IdleCall]
  /\ prev = NoPrev
  /\ conc = FALSE
  /\ ops = 0
  /\ ctor = Constructed(kind, _use_minio_workaround)
  /\ rng \in 0..(RngStates - 1)
  /\ check_call = NoCheckCall
  /\ version_call = NoVersionCall

NextRng ==
  \/ \E d \in StorageDirs, t \in Trees : Stage(d, t)
  \/ \E c \in Calls, a \in StorageIds, d \in StorageDirs, s \in MetaIds :
       StartPostStorePath(c, a, d, s)
  \/ \E c \in Calls, s \in MetaIds, d \in StorageDirs : StartUpload(c, s, d)
  \/ \E c \in Calls, s \in MetaIds, f \in {"ok", "OSError"} : StartRestorePath(c, s, f)
  \/ \E c \in Calls, s \in MetaIds, d \in StorageDirs : StartDownload(c, s, d)
  \/ \E c \in Calls, s \in MetaIds : StartDelete(c, s)
  \/ \E c \in Calls, o \in Outcomes, n \in 0..MaxDraws : S3UploadStep(c, o, n)
  \/ \E c \in Calls, o \in Outcomes, n \in 0..MaxDraws : S3DownloadStep(c, o, n)
  \/ \E c \in Calls, o \in DeleteOutcomes, n \in 0..MaxDraws : S3DeleteStep(c, o, n)
  \/ \E c \in Calls, o \in Outcomes, h \in {"reject", "text"}, n \in 0..MaxDraws :
       HdfsUploadStep(c, o, h, n)
  \/ \E c \in Calls, o \in Outcomes, l \in BOOLEAN, n \in 0..MaxDraws :
       HdfsDownloadStep(c, o, l, n)
  \/ \E c \in Calls, o \in Outcomes, n \in 0..MaxDraws : HdfsDeleteStep(c, o, n)
  \/ \E c \in Calls, b \in {"", "BodyError"} : ScopeExit(c, b)
  \/ \E c \in Calls : Finally(c)
  \/ \E c \in Calls : Return(c)

SpecRng == InitRng /\ [][NextRng]_vars

\* ------------------------------------------------- callers that overlap

\* The checkpoint every staging directory and the backend hold: one file.
ConcTree == [rel \in {<<"f">>} |-> FileEntry(<<1, 2>>)]

\* The staging directory of every checkpoint, filled by its producer.
StagedDisk ==
  [q \in {BasePath} \cup {Join(BasePath, <<s>>) : s \in StorageIds}
        \cup {Join(BasePath, <<s, "f">>) : s \in StorageIds} |->
     IF Len(q) = Len(BasePath) + 2 THEN ConcTree[<<"f">>] ELSE DirEntry]

\* The backend holding every checkpoint: objects <id>/f in the bucket, trees
\* <id> under the HDFS root.
StoredCheckpoints(adapter) ==
  [q \in (IF adapter = "s3" THEN {} ELSE {<<s>> : s \in StorageIds})
        \cup {<<s, "f">> : s \in StorageIds} |->
     IF Len(q) = 2 THEN ConcTree[<<"f">>] ELSE DirEntry]

InitConc ==
  /\ kind \in {"s3", "hdfs"}
  /\ _use_minio_workaround = FALSE
  /\ resources = << <<"f">> >>
  /\ local = StagedDisk
  /\ remote = StoredCheckpoints(kind)
  /\ call = [c \in Calls |-> IdleCall]
  /\ prev = NoPrev
  /\ conc = TRUE
  /\ ops = 0
  /\ ctor = Constructed(kind, _use_minio_workaround)
  /\ rng = 0
  /\ check_call = NoCheckCall
  /\ version_call = NoVersionCall

NextConc ==
  \/ \E c \in Calls, a \in StorageIds, d \in StorageDirs, s \in MetaIds :
       StartPostStorePath(c, a, d, s)
  \/ \E c \in Calls, s \in MetaIds, f \in {"ok", "OSError"} : StartRestorePath(c, s, f)
  \/ \E c \in Calls, o \in Outcomes : S3UploadStep(c, o, 0)
  \/ \E c \in Calls, o \in Outcomes : S3DownloadStep(c, o, 0)
  \/ \E c \in Calls, o \in Outcomes, h \in {"reject", "text"} : HdfsUploadStep(c, o, h, 0)
  \/ \E c \in Calls, o \in Outcomes, l \in BOOLEAN : HdfsDownloadStep(c, o, l, 0)
  \/ \E c \in Calls, b \in {"", "BodyError"} : ScopeExit(c, b)
  \/ \E c \in Calls : Finally(c)
  \/ \E c \in Calls : Return(c)

SpecConc == InitConc /\ [][NextConc]_vars

\* ------------------------------------------------- determined.common.check

\* Largest integer and longest list handed to a check.
MaxInt == 2

MaxListLen == 2

\* Python values: None, booleans, integers and lists of integers.
PyNone == [tag |-> "None", n |-> 0, s |-> <<>>]

PyBool(b) == [tag |-> "bool", n |-> IF b THEN 1 ELSE 0, s |-> <<>>]

PyInt(n) == [tag |-> "int", n |-> n, s |-> <<>>]

PyList(s) == [tag |-> "list", n |-> 0, s |-> s]

PyValues ==
  {PyNone} \cup {PyBool(b) : b \in BOOLEAN} \cup {PyInt(n) : n \in 0..MaxInt}
    \cup {PyList(s) : s \in SeqsOver(1..MaxInt, MaxListLen)}

\* bool is a subclass of int: True is 1 and False is 0 in comparisons.
IsNumber(v) == v.tag \in {"int", "bool"}

\* if val: the truth value of val
Truthy(v) ==
  CASE v.tag = "None" -> FALSE
    [] v.tag = "list" -> v.s # <<>>
    [] OTHER          -> v.n # 0

\* a == b
PyEq(a, b) == IF IsNumber(a) /\ IsNumber(b) THEN a.n = b.n ELSE a.tag = b.tag /\ a.s = b.s

\* Lists compare in dictionary order.
RECURSIVE SeqLt(_, _)
SeqLt(s, t) ==
  IF t = <<>> THEN FALSE
  ELSE IF s = <<>> THEN TRUE
  ELSE IF Head(s) # Head(t) THEN Head(s) < Head(t)
  ELSE SeqLt(Tail(s), Tail(t))

\* a < b and its reflections are defined between numbers and between lists;
\* anything else raises TypeError.
Orderable(a, b) == (IsNumber(a) /\ IsNumber(b)) \/ (a.tag = "list" /\ b.tag = "list")

\* a < b, for orderable a and b
PyLt(a, b) == IF IsNumber(a) THEN a.n < b.n ELSE SeqLt(a.s, b.s)

\* a <= b, for orderable a and b
PyLe(a, b) == PyLt(a, b) \/ PyEq(a, b)

\* len(v) is defined on lists; v in c is defined for a list c.
Sized(v) == v.tag = "list"

PyLen(v) == PyInt(Len(v.s))

PyIn(v, c) == \E j \in 1..Len(c.s) : PyEq(v, PyInt(c.s[j]))

\* What a call comes to: it returns None, or it raises.
CheckOutcome(passed) == IF passed THEN "None" ELSE "CheckFailedError"

true(val) == CheckOutcome(Truthy(val))

check_true(val) == true(val)

false(val) == CheckOutcome(~Truthy(val))

check_false(val) == false(val)

is_none(val) == CheckOutcome(val.tag = "None")

check_none(val) == is_none(val)

is_not_none(val) == CheckOutcome(val.tag # "None")

check_not_none(val) == is_not_none(val)

eq(val, expected) == CheckOutcome(PyEq(val, expected))

check_eq(val, expected) == eq(val, expected)

not_eq(x, y) == CheckOutcome(~PyEq(x, y))

check_not_eq(x, y) == not_eq(x, y)

gt(x, y) == IF ~Orderable(x, y) THEN "TypeError" ELSE CheckOutcome(PyLt(y, x))

check_gt(x, y) == gt(x, y)

gt_eq(x, y) == IF ~Orderable(x, y) THEN "TypeError" ELSE CheckOutcome(PyLe(y, x))

\* Mutant of check_gt_eq: the alias is wired to gt.
check_gt_eq_wired_to_gt(x, y) == gt(x, y)

check_gt_eq(x, y) == gt_eq(x, y)

lt(x, y) == IF ~Orderable(x, y) THEN "TypeError" ELSE CheckOutcome(PyLt(x, y))

check_lt(x, y) == lt(x, y)

lt_eq(x, y) == IF ~Orderable(x, y) THEN "TypeError" ELSE CheckOutcome(PyLe(x, y))

check_lt_eq(x, y) == lt_eq(x, y)

equal_lengths(x, y) ==
  IF ~Sized(x) \/ ~Sized(y) THEN "TypeError" ELSE CheckOutcome(PyEq(PyLen(x), PyLen(y)))

check_eq_len(x, y) == equal_lengths(x, y)

len_eq(val, expected_len) ==
  IF ~Sized(val) THEN "TypeError" ELSE CheckOutcome(PyEq(PyLen(val), expected_len))

check_len(val, expected_len) == len_eq(val, expected_len)

is_in(val, expected) ==
  IF ~Sized(expected) THEN "TypeError" ELSE CheckOutcome(PyIn(val, expected))

check_in(val, expected) == is_in(val, expected)

not_in(val, expected) ==
  IF ~Sized(expected) THEN "TypeError" ELSE CheckOutcome(~PyIn(val, expected))

check_not_in(val, expected) == not_in(val, expected)

CheckFunctions ==
  {"true", "false", "is_none", "is_not_none", "eq", "not_eq", "gt", "gt_eq", "lt",
   "lt_eq", "equal_lengths", "len_eq", "is_in", "not_in"}

CheckAliases ==
  {"check_true", "check_false", "check_none", "check_not_none", "check_eq",
   "check_not_eq", "check_gt", "check_gt_eq", "check_lt", "check_lt_eq", "check_eq_len",
   "check_len", "check_in", "check_not_in"}

OneArgument ==
  {"true", "check_true", "false", "check_false", "is_none", "check_none", "is_not_none",
   "check_not_none"}

\* The call fn(x, y) of the check module; a function of one argument takes x.
Invoke(fn, x, y) ==
  CASE fn = "true" -> true(x)
    [] fn = "check_true" -> check_true(x)
    [] fn = "false" -> false(x)
    [] fn = "check_false" -> check_false(x)
    [] fn = "is_none" -> is_none(x)
    [] fn = "check_none" -> check_none(x)
    [] fn = "is_not_none" -> is_not_none(x)
    [] fn = "check_not_none" -> check_not_none(x)
    [] fn = "eq" -> eq(x, y)
    [] fn = "check_eq" -> check_eq(x, y)
    [] fn = "not_eq" -> not_eq(x, y)
    [] fn = "check_not_eq" -> check_not_eq(x, y)
    [] fn = "gt" -> gt(x, y)
    [] fn = "check_gt" -> check_gt(x, y)
    [] fn = "gt_eq" -> gt_eq(x, y)
    [] fn = "check_gt_eq" -> check_gt_eq(x, y)
    [] fn = "lt" -> lt(x, y)
    [] fn = "check_lt" -> check_lt(x, y)
    [] fn = "lt_eq" -> lt_eq(x, y)
    [] fn = "check_lt_eq" -> check_lt_eq(x, y)
    [] fn = "equal_lengths" -> equal_lengths(x, y)
    [] fn = "check_eq_len" -> check_eq_len(x, y)
    [] fn = "len_eq" -> len_eq(x, y)
    [] fn = "check_len" -> check_len(x, y)
    [] fn = "is_in" -> is_in(x, y)
    [] fn = "check_in" -> check_in(x, y)
    [] fn = "not_in" -> not_in(x, y)
    [] fn = "check_not_in" -> check_not_in(x, y)

\* The calls of the check module some code is about to make.
CheckCalls ==
  {[fn |-> fn, x |-> x, y |-> y, out |-> "pending"] :
     fn \in CheckFunctions \cup CheckAliases, x \in PyValues, y \in PyValues}

\* The pending call of the check module runs.
CallCheck ==
  /\ check_call.out = "pending"
  /\ check_call' = [check_call EXCEPT !.out = Invoke(check_call.fn, check_call.x, check_call.y)]
  /\ UNCHANGED <<kind, _use_minio_workaround, resources, local, remote, call, prev, conc, ops,
                 ctor, rng, version_call>>

\* A manager with nothing staged, nothing stored and no call in flight.
ManagerAtRest ==
  /\ kind = "s3"
  /\ _use_minio_workaround = FALSE
  /\ resources = <<>>
  /\ local = EmptyDisk
  /\ remote = <<>>
  /\ call = [c \in Calls |-> IdleCall]
  /\ prev = NoPrev
  /\ conc = FALSE
  /\ ops = 0
  /\ ctor = Constructed(kind, _use_minio_workaround)
  /\ rng = 0

InitCheck ==
  /\ ManagerAtRest
  /\ check_call \in {k \in CheckCalls : k.fn \in OneArgument => k.y = PyNone}
  /\ version_call = NoVersionCall

NextCheck == CallCheck

SpecCheck == InitCheck /\ [][NextCheck]_vars

\* ------------------------------------------------------------- cli/version

\* Master addresses given on the command line.
Hosts == {"localhost:8080", "https://master", ""}

\* determined.__version__ of the client.
ClientVersions == {"0.13.0", "0.14.0"}

\* What a master reports on its info route.
MasterInfos ==
  [cluster_id : {"", "c1"}, master_id : {"", "m1"}, version : {"", "0.13.0", "0.14.0"}]

\* Exceptions the info request raises: requests' SSLError, the api's
\* MasterNotFoundException, and errors of neither class.
ApiExceptions == {"SSLError", "MasterNotFoundException", "ForbiddenException", "JSONDecodeError"}

ApiResults ==
  {ApiResult("", j) : j \in MasterInfos} \cup {ApiResult(e, DefaultMasterInfo) : e \in ApiExceptions}

\* As get_version with "except requests.exceptions.SSLError: pass".
get_version_swallows_ssl(host, version, result) ==
  LET client_info == [version |-> version]
      master_info == DefaultMasterInfo
  IN  IF result.raises \in {"SSLError", "MasterNotFoundException"}
        THEN [err |-> "", value |-> VersionInfo(client_info, master_info, host)]
      ELSE IF result.raises # ""
        THEN [err |-> result.raises, value |-> NoVersionInfo]
      ELSE [err |-> "", value |-> VersionInfo(client_info, result.json, host)]

\* get_version(host), with the client's version and the outcome of the
\* info request as further inputs.  An SSLError is raised again, a
\* MasterNotFoundException is passed over and leaves master_info at its
\* default, any other exception meets no except clause.
get_version(host, version, result) ==
  LET client_info == [version |-> version]
      master_info == DefaultMasterInfo
  IN  IF result.raises = "SSLError"
        THEN [err |-> "SSLError", value |-> NoVersionInfo]
      ELSE IF result.raises = "MasterNotFoundException"
        THEN [err |-> "", value |-> VersionInfo(client_info, master_info, host)]
      ELSE IF result.raises # ""
        THEN [err |-> result.raises, value |-> NoVersionInfo]
      ELSE [err |-> "", value |-> VersionInfo(client_info, result.json, host)]

\* The calls of get_version some code is about to make.
VersionCalls ==
  {[host |-> h, version |-> v, api |-> r, pc |-> "pending", err |-> "", value |-> NoVersionInfo] :
     h \in Hosts, v \in ClientVersions, r \in ApiResults}

\* The pending call of get_version runs.
CallGetVersion ==
  /\ version_call.pc = "pending"
  /\ LET out == get_version(version_call.host, version_call.version, version_call.api)
     IN  version_call' = [version_call EXCEPT !.pc = IF out.err = "" THEN "returned" ELSE "raised",
                                              !.err = out.err,
                                              !.value = out.value]
  /\ UNCHANGED <<kind, _use_minio_workaround, resources, local, remote, call, prev, conc, ops,
                 ctor, rng, check_call>>

InitVersion ==
  /\ ManagerAtRest
  /\ check_call = NoCheckCall
  /\ version_call \in VersionCalls

NextVersion == CallGetVersion

SpecVersion == InitVersion /\ [][NextVersion]_vars

\* ------------------------------------------------------------------ claims

StagingDir(storage_id) == Join(BasePath, <<storage_id>>)

TransferEvents == {"upload_file", "put_object", "download_file", "hdfs_upload", "hdfs_download"}

HasMarkerAndFile(res) ==
  /\ \E j \in 1..Len(res) : EndsWithSlash(res[j])
  /\ \E j \in 1..Len(res) : ~EndsWithSlash(res[j])

\* C1 (as claimed): once post_store_path(storage_id, storage_dir, metadata) has
\* returned or raised, the directory <base_path>/<storage_id> of its first
\* argument does not exist.
C1_FirstArgumentDirRemoved ==
  \A c \in Calls :
    (call[c].op = "post_store_path" /\ call[c].pc = "done")
      => ~Exists(local, StagingDir(call[c].sid))

\* The restore_path call of k got through its download: it returned normally
\* or with the error of the caller's code inside the scope.
ScopeClosed(k) ==
  k.op = "restore_path" /\ k.pc = "done" /\ k.err \in {"", "BodyError"}

\* C2: the directory restore_path yields, <base_path>/<metadata.storage_id>,
\* exists while the scope is open and is absent once the scope has been left,
\* normally or by an error of the caller's code.
C2_RestoreScopeCleanup ==
  \A c \in Calls :
    /\ (call[c].op = "restore_path" /\ call[c].pc = "yielded")
         => IsDir(local, StagingDir(call[c].meta.storage_id))
    /\ ScopeClosed(call[c]) => ~Exists(local, StagingDir(call[c].meta.storage_id))

\* C2 witness: an S3 restore whose download fetched a file and whose caller
\* raised inside the scope has returned.
C2_Witness ==
  \E c \in Calls :
    /\ ScopeClosed(call[c])
    /\ call[c].err = "BodyError"
    /\ \E j \in 1..Len(call[c].log) :
         call[c].log[j].ev = "download_file" /\ call[c].log[j].res = "ok"

\* The download of the restore_path call of k failed: the call has raised the
\* error of its last transfer step.
RestoreDownloadFailed(k) ==
  /\ k.op = "restore_path" /\ k.pc = "done"
  /\ Len(k.log) >= 1
  /\ k.log[Len(k.log)].ev \in {"download_file", "hdfs_download"}
  /\ k.log[Len(k.log)].res # "ok"

\* C3 (as claimed): when the download of restore_path fails, the directory
\* <base_path>/<metadata.storage_id> does not exist when the error reaches the
\* caller.
C3_FailedRestoreLeavesNothing ==
  \A c \in Calls :
    RestoreDownloadFailed(call[c]) => ~Exists(local, StagingDir(call[c].meta.storage_id))

\* The tree a Resource Map describes, with the file contents of tree t: every
\* file of the map, every directory marker (a directory) and the directories
\* above them.
ExpectedTree(res, t) ==
  LET paths == {Norm(res[j]) : j \in 1..Len(res)}
      files == {res[j] : j \in {i \in 1..Len(res) : ~EndsWithSlash(res[i])}}
      all   == UNION {{SubSeq(q, 1, n) : n \in 1..Len(q)} : q \in paths}
  IN  [q \in all |-> IF q \in files THEN FileEntry(t[q].data) ELSE DirEntry]

\* An S3 download into an empty directory has succeeded right after a
\* successful S3 upload of the same metadata.
RoundTripDone(k) ==
  /\ kind = "s3"
  /\ k.op = "download" /\ k.pc = "done" /\ k.err = "" /\ k.fresh
  /\ prev.op = "upload" /\ prev.err = "" /\ prev.meta = k.meta

\* C4: S3 upload(metadata, dir1) then download(metadata, dir2) into an empty
\* dir2, both successful, leaves under dir2 exactly the paths of the Resource
\* Map: each file with the uploaded content (hence size), each directory
\* marker as a directory holding only what the map lists below it.
C4_RoundTrip ==
  \A c \in Calls :
    RoundTripDone(call[c])
      => Subtree(local, call[c].dir) = ExpectedTree(call[c].meta.resources, prev.tree)

\* C4 witness: such a round trip of a map with a file and a directory marker,
\* with the minio workaround on.
C4_Witness ==
  \E c \in Calls :
    /\ RoundTripDone(call[c])
    /\ _use_minio_workaround
    /\ HasMarkerAndFile(call[c].meta.resources)

\* C5 (as claimed): HDFS post_store_path uploads to the remote path
\* <root>/<storage_id>, the path download reads and delete removes.
C5_HdfsUploadPath ==
  \A c \in Calls : \A j \in 1..Len(call[c].log) :
    call[c].log[j].ev \in {"hdfs_upload", "hdfs_download", "hdfs_delete"}
      => call[c].log[j].keys = << <<call[c].meta.storage_id>> >>

\* The backend requests S3 upload is to issue for the resources res, in order.
RECURSIVE ExpectedUploadCalls(_, _, _)
ExpectedUploadCalls(workaround, sid, res) ==
  IF res = <<>> THEN <<>>
  ELSE LET rel == Head(res)
           one == IF EndsWithSlash(rel)
                    THEN IF workaround THEN <<>>
                         ELSE <<[ev |-> "put_object", keys |-> <<KeyName(sid, rel)>>]>>
                  ELSE <<[ev |-> "upload_file", keys |-> <<KeyName(sid, rel)>>]>>
       IN  one \o ExpectedUploadCalls(workaround, sid, Tail(res))

NotCleanup(e) == e.ev # "rmtree"

IssuedCalls(log) ==
  LET l == SelectSeq(log, NotCleanup)
  IN  [j \in 1..Len(l) |-> [ev |-> l[j].ev, keys |-> l[j].keys]]

\* C6: S3 upload issues, for the resources it has gone through, upload_file
\* for every path not ending in "/" and, for a path ending in "/", nothing
\* when the minio workaround is on and otherwise one put_object of a
\* zero-byte object at <storage_id>/<rel_path>, never an upload_file.
C6_UploadCalls ==
  \A c \in Calls :
    (kind = "s3" /\ call[c].op \in {"upload", "post_store_path"})
      => /\ IssuedCalls(call[c].log)
              = ExpectedUploadCalls(_use_minio_workaround, call[c].meta.storage_id,
                                    SubSeq(call[c].meta.resources, 1, call[c].i - 1))
         /\ \A j \in 1..Len(call[c].log) :
              (call[c].log[j].ev = "put_object" /\ call[c].log[j].res = "ok")
                => remote[call[c].log[j].keys[1]] = FileEntry(<<>>)

\* C6 witness: an upload of a map with a file and a directory marker has
\* returned normally with the minio workaround on.
C6_Witness ==
  \E c \in Calls :
    /\ kind = "s3" /\ call[c].op = "upload" /\ call[c].pc = "done" /\ call[c].err = ""
    /\ _use_minio_workaround
    /\ HasMarkerAndFile(call[c].meta.resources)

\* The calls S3 download is to make for the resources res, in order.
RECURSIVE ExpectedDownloadCalls(_, _, _)
ExpectedDownloadCalls(sid, dir, res) ==
  IF res = <<>> THEN <<>>
  ELSE LET rel == Head(res)
           mk  == [ev |-> "makedirs", path |-> Dirname(Join(dir, rel)), keys |-> <<>>]
           get == [ev |-> "download_file", path |-> Join(dir, rel),
                   keys |-> <<KeyName(sid, rel)>>]
       IN  (IF EndsWithSlash(rel) THEN <<mk>> ELSE <<mk, get>>)
             \o ExpectedDownloadCalls(sid, dir, Tail(res))

\* The calls of the download loop in the log of k (restore_path makes its
\* staging directory first).
DownloadLoopCalls(k) ==
  LET l == IF k.op = "restore_path" THEN Tail(SelectSeq(k.log, NotCleanup))
           ELSE SelectSeq(k.log, NotCleanup)
  IN  [j \in 1..Len(l) |-> [ev |-> l[j].ev, path |-> l[j].path, keys |-> l[j].keys]]

DownloadSucceeded(k) ==
  \/ k.op = "download" /\ k.pc = "done" /\ k.err = ""
  \/ k.op = "restore_path" /\ k.pc = "yielded"

\* C7: S3 download makes, for every resource it has gone through, the parent
\* directory first and then exactly one download_file of
\* <storage_id>/<rel_path>, except for a path ending in "/", for which it
\* fetches nothing; after a successful download the directory of every such
\* path exists, whether the bucket holds the marker object or not.
C7_DownloadCalls ==
  \A c \in Calls :
    (kind = "s3" /\ call[c].op \in {"download", "restore_path"} /\ Len(call[c].log) >= 1)
      => /\ DownloadLoopCalls(call[c])
              = ExpectedDownloadCalls(call[c].meta.storage_id, call[c].dir,
                                      SubSeq(call[c].meta.resources, 1, call[c].i - 1))
         /\ DownloadSucceeded(call[c])
              => \A j \in 1..Len(call[c].meta.resources) :
                   EndsWithSlash(call[c].meta.resources[j])
                     => IsDir(local, Join(call[c].dir, call[c].meta.resources[j]))

\* C7 witness: a download of a map with a file and a directory marker has
\* succeeded while the bucket holds no object for the marker.
C7_Witness ==
  \E c \in Calls :
    /\ kind = "s3" /\ call[c].op = "download" /\ DownloadSucceeded(call[c])
    /\ HasMarkerAndFile(call[c].meta.resources)
    /\ \E j \in 1..Len(call[c].meta.resources) :
         /\ EndsWithSlash(call[c].meta.resources[j])
         /\ KeyName(call[c].meta.storage_id, call[c].meta.resources[j]) \notin DOMAIN remote

RECURSIVE Flatten(_)
Flatten(seqs) == IF seqs = <<>> THEN <<>> ELSE Head(seqs) \o Flatten(Tail(seqs))

\* C8: an S3 delete of N resources whose requests all succeed issues
\* ceil(N / 1000) delete_objects requests (none when N = 0), each of 1 to 1000
\* keys and all but the last of exactly 1000, whose key lists concatenate to
\* the keys <storage_id>/<rel_path> in the order of the Resource Map.
C8_DeleteBatches ==
  \A c \in Calls :
    (kind = "s3" /\ call[c].op = "delete" /\ call[c].pc = "done" /\ call[c].err = "")
      => LET log  == call[c].log
             res  == call[c].meta.resources
             n    == Len(log)
             reqs == [j \in 1..n |-> log[j].keys]
         IN  /\ n * 1000 >= Len(res)
             /\ (n - 1) * 1000 < Len(res) \/ (n = 0 /\ Len(res) = 0)
             /\ \A j \in 1..n :
                  /\ log[j].ev = "delete_objects"
                  /\ Len(reqs[j]) >= 1 /\ Len(reqs[j]) <= 1000
                  /\ j < n => Len(reqs[j]) = 1000
             /\ Flatten(reqs)
                  = [j \in 1..Len(res) |-> KeyName(call[c].meta.storage_id, res[j])]

\* C8 witness: a delete of the longest Resource Map has returned normally
\* after three requests.
C8_Witness ==
  \E c \in Calls :
    /\ kind = "s3" /\ call[c].op = "delete" /\ call[c].pc = "done" /\ call[c].err = ""
    /\ Len(call[c].meta.resources) = MaxDeleteLen
    /\ Len(call[c].log) = 3

\* C9: when the transfer of post_store_path raises, the call ends with the
\* failed transfer request followed by the removal of the staging
\* subdirectory <base_path>/<metadata.storage_id>, and the error the caller
\* gets is the one that request raised.
C9_CleanupBeforeError ==
  \A c \in Calls :
    (call[c].op = "post_store_path" /\ call[c].pc = "done" /\ call[c].err # "")
      => LET log == call[c].log
             n   == Len(log)
         IN  /\ n >= 2
             /\ log[n].ev = "rmtree"
             /\ log[n].path = StagingDir(call[c].meta.storage_id)
             /\ log[n - 1].ev \in TransferEvents
             /\ log[n - 1].res = call[c].err
             /\ \A j \in 1..(n - 2) : log[j].res = "ok"
             /\ ~Exists(local, StagingDir(call[c].meta.storage_id))

\* C9 witness: a post_store_path from its own staging subdirectory has raised
\* the network error of its second request.
C9_Witness ==
  \E c \in Calls :
    /\ call[c].op = "post_store_path" /\ call[c].pc = "done"
    /\ call[c].err = "EndpointConnectionError"
    /\ call[c].dir = StagingDir(call[c].meta.storage_id)
    /\ Len(call[c].log) = 3
    /\ call[c].log[1].res = "ok"

\* C10 (as claimed): once post_store_path has returned or raised, the files
\* it uploaded from storage_dir no longer exist on the local disk, whatever
\* storage_dir the caller passed.
C10_OriginalFilesDeleted ==
  \A c \in Calls :
    (call[c].op = "post_store_path" /\ call[c].pc = "done")
      => \A j \in 1..Len(call[c].log) :
           (call[c].log[j].ev \in {"upload_file", "hdfs_upload"} /\ call[c].log[j].res = "ok")
             => ~Exists(local, call[c].log[j].path)

\* The keys of the request the event e records.
KeysOf(e) == {e.keys[j] : j \in 1..Len(e.keys)}

\* The delete_objects request recorded by e raised.
Raised(e) == e.res \notin {"ok", "Errors"}

\* C11: when a delete_objects request of an S3 delete raises, it is the last
\* request of the call, its error is the error delete raises, and every key of
\* an earlier request that the backend deleted is still absent from the bucket.
C11_DeleteStopsAtFailedBatch ==
  \A c \in Calls :
    LET k == call[c]
    IN  (kind = "s3" /\ k.op = "delete" /\ k.pc = "done"
           /\ \E j \in 1..Len(k.log) : Raised(k.log[j]))
          => /\ \A j \in 1..Len(k.log) : Raised(k.log[j]) => j = Len(k.log)
             /\ k.err = k.log[Len(k.log)].res
             /\ \A j \in 1..(Len(k.log) - 1) :
                  k.log[j].res = "ok" => KeysOf(k.log[j]) \cap DOMAIN remote = {}

\* C11 witness: the third request of a delete raised after two requests had
\* emptied their batches, and the keys of the third are still in the bucket.
C11_Witness ==
  \E c \in Calls :
    LET k == call[c]
    IN  /\ k.op = "delete" /\ k.pc = "done" /\ k.err # ""
        /\ Len(k.log) = 3
        /\ k.log[1].res = "ok" /\ k.log[2].res = "ok"
        /\ Len(DeleteRequests(k.meta)) = 3
        /\ KeysOf(k.log[3]) \subseteq DOMAIN remote

\* C12 (as claimed): when S3 delete has returned normally, no key of a request
\* it sent is left in the bucket.
C12_NoSilentPartialDelete ==
  \A c \in Calls :
    LET k == call[c]
    IN  (kind = "s3" /\ k.op = "delete" /\ k.pc = "done" /\ k.err = "")
          => \A j \in 1..Len(k.log) : KeysOf(k.log[j]) \cap DOMAIN remote = {}

\* Nothing of the checkpoint of metadata is in the backend: no key of the map
\* in the bucket (S3), no path <storage_id> under the root (HDFS).
AlreadyDeleted(metadata) ==
  IF kind = "s3"
    THEN \A j \in 1..Len(metadata.resources) :
           KeyName(metadata.storage_id, metadata.resources[j]) \notin DOMAIN remote
    ELSE ~Exists(remote, <<metadata.storage_id>>)

\* The call of k is a delete that follows a delete of the same metadata that
\* returned normally and left nothing of the checkpoint in the backend.
SecondDelete(k) ==
  /\ k.op = "delete"
  /\ prev.op = "delete" /\ prev.err = "" /\ prev.meta = k.meta
  /\ AlreadyDeleted(k.meta)

C14_ProbeFailureNotFatal ==
  (kind = "s3" /\ ctor.pc # "new" /\ ctor.endpoint_url # "None")
    => /\ ctor.pc = "ready"
       /\ (\E j \in 1..Len(ctor.probes) : ctor.probes[j].raised # "")
            => ~_use_minio_workaround

\* The storage operations: the five of the S3 manager and the four of the
\* HDFS manager.
StorageOps == {"upload", "download", "delete", "post_store_path", "restore_path"}

\* C15: when a storage operation has returned or raised, and when the entry
\* of restore_path has returned (the scope is open), the global random
\* generator is in the state it had when the operation was entered, whatever
\* the backend client drew from it during the call.
C15_RandomStatePreserved ==
  \A c \in Calls :
    (call[c].op \in StorageOps /\ call[c].pc \in {"done", "yielded"})
      => rng = call[c].rng0

\* C15 witness: an operation during which the backend client drew from the
\* generator has raised.
C15_Witness ==
  \E c \in Calls :
    /\ call[c].op \in StorageOps /\ call[c].pc = "done"
    /\ call[c].drawn >= 1
    /\ call[c].err \in BackendErrors

\* The storage_id a call of post_store_path or restore_path was given: the
\* storage_id argument of post_store_path, metadata.storage_id of restore_path.
CallId(k) == IF k.op = "post_store_path" THEN k.sid ELSE k.meta.storage_id

\* A post_store_path or restore_path call that has been entered and has not
\* returned or raised yet.
InFlight(k) == k.op \in {"post_store_path", "restore_path"} /\ k.pc \notin {"idle", "done"}

\* What belongs to the checkpoint id: its local subdirectory and the backend
\* keys under its prefix.
LocalOf(fs, id) == [here |-> Exists(fs, StagingDir(id)), below |-> Subtree(fs, StagingDir(id))]

RemoteOf(rem, id) == [here |-> Exists(rem, <<id>>), below |-> Subtree(rem, <<id>>)]

\* C16 (as claimed): while a post_store_path or restore_path call is in
\* flight, no step of an overlapping call that was given a different
\* storage_id changes the local subdirectory or the backend keys of the
\* first call's storage_id; in particular the directory of an open restore
\* scope is not removed by the other call.
C16_DifferentIdsDoNotInterfere ==
  [][\A c \in Calls, o \in Calls :
       LET other == IF call[o].pc = "idle" THEN call'[o] ELSE call[o]
       IN  (c # o /\ call'[o] # call[o] /\ call'[c] = call[c]
              /\ InFlight(call[c]) /\ other.op \in {"post_store_path", "restore_path"}
              /\ CallId(other) # CallId(call[c]))
             => /\ LocalOf(local', CallId(call[c])) = LocalOf(local, CallId(call[c]))
                /\ RemoteOf(remote', CallId(call[c])) = RemoteOf(remote, CallId(call[c]))]_vars

\* Two restore_path calls on the same metadata.storage_id: the scope of c is
\* open and the finally block of o is about to run.
ExitUnderOpenScope(c, o) ==
  /\ c # o
  /\ call[c].op = "restore_path" /\ call[c].pc = "yielded"
  /\ call[o].op = "restore_path" /\ call[o].pc = "finally"
  /\ call[o].meta.storage_id = call[c].meta.storage_id

\* C20: when two restore_path scopes on the same storage_id overlap, nothing
\* holds back the exit of one while the other is open, and that exit removes
\* <base_path>/<storage_id> from under the scope that stays open.
C20_ExitRemovesDirOfOpenScope ==
  [][\A c \in Calls, o \in Calls :
       ExitUnderOpenScope(c, o)
         => /\ ENABLED Finally(o)
            /\ (call'[o] # call[o])
                 => /\ call'[c].pc = "yielded"
                    /\ ~Exists(local', StagingDir(call[c].meta.storage_id))]_vars

\* C20 witness: a restore_path scope is open, its download has fetched its
\* file, and the directory it yielded is gone: another restore_path call on
\* the same storage_id has run its cleanup.
C20_Witness ==
  \E c \in Calls, o \in Calls :
    /\ c # o
    /\ call[c].op = "restore_path" /\ call[c].pc = "yielded"
    /\ \E j \in 1..Len(call[c].log) :
         call[c].log[j].ev \in {"download_file", "hdfs_download"} /\ call[c].log[j].res = "ok"
    /\ call[o].op = "restore_path" /\ call[o].pc = "done"
    /\ call[o].meta.storage_id = call[c].meta.storage_id
    /\ ~Exists(local, StagingDir(call[c].meta.storage_id))

IsFileRel(rel) == ~EndsWithSlash(rel)

IsTransferCall(e) == e.ev = "upload_file"

\* The events of log that are requests on the key of resource rel.
CallsOn(log, sid, rel) == {j \in 1..Len(log) : log[j].keys = <<KeyName(sid, rel)>>}

\* C17: when S3 upload(metadata, storage_dir) has returned normally, its
\* upload_file calls are one per file of the Resource Map, in the order of the
\* map, each successful; the bucket holds an object at <storage_id>/<rel_path>
\* for every file, with the content of the local file, and for every directory
\* marker when the workaround flag is false.
C17_NormalReturnTransfersAll ==
  \A c \in Calls :
    LET k     == call[c]
        files == SelectSeq(k.meta.resources, IsFileRel)
        ups   == SelectSeq(k.log, IsTransferCall)
    IN  (kind = "s3" /\ k.op = "upload" /\ k.pc = "done" /\ k.err = "")
          => /\ Len(ups) = Len(files)
             /\ \A j \in 1..Len(files) :
                  /\ ups[j].keys = <<KeyName(k.meta.storage_id, files[j])>>
                  /\ ups[j].path = Join(k.dir, files[j])
                  /\ ups[j].res = "ok"
                  /\ KeyName(k.meta.storage_id, files[j]) \in DOMAIN remote
                  /\ remote[KeyName(k.meta.storage_id, files[j])]
                       = FileEntry(local[Join(k.dir, files[j])].data)
             /\ \A j \in 1..Len(k.meta.resources) :
                  (EndsWithSlash(k.meta.resources[j]) /\ ~_use_minio_workaround)
                    => KeyName(k.meta.storage_id, k.meta.resources[j]) \in DOMAIN remote

\* C17 witness: an upload of a directory marker and a file below it has
\* returned normally with the workaround flag false.
C17_Witness ==
  \E c \in Calls :
    /\ kind = "s3" /\ call[c].op = "upload" /\ call[c].pc = "done" /\ call[c].err = ""
    /\ ~_use_minio_workaround
    /\ call[c].meta.resources = << <<"d", "">>, <<"d", "g">> >>

\* S3 post_store_path has raised the error of the transfer of resource n.
TransferFailedAt(k, n) ==
  /\ kind = "s3" /\ k.op = "post_store_path" /\ k.pc = "done" /\ k.err # ""
  /\ n = k.i - 1

\* C18: when the transfer of the k-th resource fails during S3
\* post_store_path, the objects of the resources before it that were sent are
\* in the bucket, nothing was requested for the resources after it, the failed
\* transfer was requested once, and no delete was sent to the backend: no
\* resource is the subject of more than one request.
C18_FailedTransferStopsUpload ==
  \A c \in Calls : \A n \in 1..Len(call[c].meta.resources) :
    LET k   == call[c]
        res == k.meta.resources
        sid == k.meta.storage_id
    IN  TransferFailedAt(k, n)
          => /\ \A j \in 1..(n - 1) :
                  (IsFileRel(res[j]) \/ ~_use_minio_workaround)
                    => (KeyName(sid, res[j]) \in DOMAIN remote
                          /\ Cardinality(CallsOn(k.log, sid, res[j])) = 1)
             /\ Cardinality(CallsOn(k.log, sid, res[n])) = 1
             /\ \A j \in (n + 1)..Len(res) : CallsOn(k.log, sid, res[j]) = {}
             /\ \A j \in 1..Len(k.log) : k.log[j].ev \notin {"delete_objects", "hdfs_delete"}
             /\ LET calls == SelectSeq(k.log, NotCleanup)
                IN  /\ calls # <<>>
                    /\ calls[Len(calls)].res = k.err
                    /\ calls[Len(calls)].keys = <<KeyName(sid, res[n])>>
                    /\ \A j \in 1..(Len(calls) - 1) : calls[j].res = "ok"

\* C18 witness: the transfer of the second of two files failed after the
\* first was uploaded.
C18_Witness ==
  \E c \in Calls :
    /\ TransferFailedAt(call[c], 2)
    /\ Len(call[c].meta.resources) = 2
    /\ call[c].log[1].ev \in {"upload_file", "put_object"} /\ call[c].log[1].res = "ok"
    /\ call[c].err \in BackendErrors

\* C19 (as claimed): while a restore_path scope of the S3 manager is open,
\* the yielded directory holds exactly the paths of metadata.resources (with
\* the directories above them), whatever was in <base_path>/<storage_id>
\* before the call.
C19_RestoreDirIsFresh ==
  \A c \in Calls :
    (kind = "s3" /\ call[c].op = "restore_path" /\ call[c].pc = "yielded")
      => LET res   == call[c].meta.resources
             paths == {Norm(res[j]) : j \in 1..Len(res)}
         IN  DOMAIN Subtree(local, StagingDir(call[c].meta.storage_id))
               = UNION {{SubSeq(q, 1, n) : n \in 1..Len(q)} : q \in paths}

BackendCalls ==
  {"upload_file", "put_object", "download_file", "delete_objects",
   "hdfs_upload", "hdfs_download", "hdfs_delete"}

\* C21: the first thing an S3 restore_path does is to create the staging
\* subdirectory <base_path>/<metadata.storage_id>, so every backend call of
\* the restore comes after it; when the creation fails, restore_path raises
\* that error and has made no backend call.
C21_StagingBeforeBackend ==
  \A c \in Calls :
    LET k == call[c]
    IN  (kind = "s3" /\ k.op = "restore_path")
          => /\ Len(k.log) >= 1
             /\ k.log[1].ev = "makedirs"
             /\ k.log[1].path = StagingDir(k.meta.storage_id)
             /\ k.log[1].res # "ok"
                  => /\ k.pc = "done"
                     /\ k.err = k.log[1].res
                     /\ \A j \in 1..Len(k.log) : k.log[j].ev \notin BackendCalls

\* C21 witness: an S3 restore_path of a checkpoint whose object is in the
\* bucket has raised the error of creating its staging subdirectory.
C21_Witness ==
  \E c \in Calls :
    LET k == call[c]
    IN  /\ kind = "s3" /\ k.op = "restore_path" /\ k.pc = "done"
        /\ k.err = "OSError"
        /\ Len(k.meta.resources) >= 1
        /\ \A j \in 1..Len(k.meta.resources) :
             KeyName(k.meta.storage_id, k.meta.resources[j]) \in DOMAIN remote

\* The Server headers that equal "minio" when letter case is ignored.
MinioHeaders == {"minio", "MinIO"}

\* The value construction fixes for the workaround flag: true exactly when an
\* endpoint_url was given, its one probe got a response, and the response's
\* Server header is "minio" up to letter case.
FlagFixedAtConstruction ==
  /\ ctor.endpoint_url # "None"
  /\ Len(ctor.probes) = 1
  /\ ctor.probes[1].raised = ""
  /\ ctor.probes[1].server \in MinioHeaders

\* C22: once __init__ of an S3 manager has run, the workaround flag has the
\* value fixed at construction, at most one probe was issued, and none when
\* no endpoint_url was given; and no step of an upload, download, delete,
\* post_store_path or restore_path changes the flag or issues a probe.
C22_FlagFixedAtConstruction ==
  /\ [](ctor.pc # "new"
          => /\ _use_minio_workaround = FlagFixedAtConstruction
             /\ Len(ctor.probes) <= 1
             /\ ctor.endpoint_url = "None" => ctor.probes = <<>>)
  /\ [][ctor.pc # "new" => (_use_minio_workaround' = _use_minio_workaround /\ ctor' = ctor)]_vars

\* C22 witness: a manager whose probe was answered with the header "MinIO"
\* has the flag set after an upload of a Resource Map with a directory marker
\* has returned normally.
C22_Witness ==
  /\ ctor.pc = "ready"
  /\ _use_minio_workaround
  /\ ctor.probes = <<[raised |-> "", server |-> "MinIO"]>>
  /\ \E c \in Calls :
       /\ call[c].op \in {"upload", "post_store_path"} /\ call[c].pc = "done"
       /\ \E j \in 1..Len(call[c].meta.resources) : EndsWithSlash(call[c].meta.resources[j])
       /\ call[c].i > Len(call[c].meta.resources)

\* The function a name of the check module stands for: an alias stands for
\* its short-named counterpart.
ShortName(fn) ==
  CASE fn = "check_true"     -> "true"
    [] fn = "check_false"    -> "false"
    [] fn = "check_none"     -> "is_none"
    [] fn = "check_not_none" -> "is_not_none"
    [] fn = "check_eq"       -> "eq"
    [] fn = "check_not_eq"   -> "not_eq"
    [] fn = "check_gt"       -> "gt"
    [] fn = "check_gt_eq"    -> "gt_eq"
    [] fn = "check_lt"       -> "lt"
    [] fn = "check_lt_eq"    -> "lt_eq"
    [] fn = "check_eq_len"   -> "equal_lengths"
    [] fn = "check_len"      -> "len_eq"
    [] fn = "check_in"       -> "is_in"
    [] fn = "check_not_in"   -> "not_in"
    [] OTHER                 -> fn

\* The values Python takes for false.
Falsy == {PyNone, PyBool(FALSE), PyInt(0), PyList(<<>>)}

\* a and b are the same value, True counting as 1 and False as 0.
Same(a, b) == a = b \/ (IsNumber(a) /\ IsNumber(b) /\ a.n = b.n)

\* a comes strictly before b: by size for numbers, in dictionary order for lists.
Below(a, b) == IF IsNumber(a) THEN a.n < b.n ELSE SeqLt(a.s, b.s)

\* The predicate of the check f has a value on x and y: an order needs two
\* numbers or two lists, a length needs a list, membership needs a list.
PredicateDefined(f, x, y) ==
  CASE f \in {"gt", "gt_eq", "lt", "lt_eq"} -> Orderable(x, y)
    [] f = "equal_lengths"                  -> x.tag = "list" /\ y.tag = "list"
    [] f = "len_eq"                         -> x.tag = "list"
    [] f \in {"is_in", "not_in"}            -> y.tag = "list"
    [] OTHER                                -> TRUE

\* The predicate of the check f holds on x and y.
PredicateHolds(f, x, y) ==
  CASE f = "true"          -> x \notin Falsy
    [] f = "false"         -> x \in Falsy
    [] f = "is_none"       -> x = PyNone
    [] f = "is_not_none"   -> x # PyNone
    [] f = "eq"            -> Same(x, y)
    [] f = "not_eq"        -> ~Same(x, y)
    [] f = "gt"            -> Below(y, x)
    [] f = "gt_eq"         -> ~Below(x, y)
    [] f = "lt"            -> Below(x, y)
    [] f = "lt_eq"         -> ~Below(y, x)
    [] f = "equal_lengths" -> Len(x.s) = Len(y.s)
    [] f = "len_eq"        -> IsNumber(y) /\ Len(x.s) = y.n
    [] f = "is_in"         -> IsNumber(x) /\ \E j \in 1..Len(y.s) : y.s[j] = x.n
    [] f = "not_in"        -> ~(IsNumber(x) /\ \E j \in 1..Len(y.s) : y.s[j] = x.n)

\* C23: a call of a check function, on arguments its predicate has a value
\* for, has returned None exactly when the predicate holds and has raised
\* CheckFailedError exactly when it does not; a call that returned changed
\* nothing; and a call of a check_* alias has the outcome its short-named
\* counterpart has on the same arguments, whatever the arguments.
C23_ChecksFollowPredicates ==
  LET k == check_call
      f == ShortName(k.fn)
  IN  (k.fn # "" /\ k.out # "pending")
        => /\ PredicateDefined(f, k.x, k.y)
                => /\ k.out = "None" <=> PredicateHolds(f, k.x, k.y)
                   /\ k.out = "CheckFailedError" <=> ~PredicateHolds(f, k.x, k.y)
           /\ k.out = "None" => ManagerAtRest
           /\ k.out = Invoke(f, k.x, k.y)

\* C23 witness: the alias check_gt_eq has returned on two equal integers.
C23_Witness ==
  /\ check_call.fn = "check_gt_eq"
  /\ check_call.x = PyInt(1) /\ check_call.y = PyInt(1)
  /\ check_call.out = "None"

\* C24: a call of get_version whose info request raised
\* MasterNotFoundException has returned with the master fields at their
\* empty defaults; one whose info request succeeded has returned the info
\* the master reported; one whose info request raised an SSL error has
\* raised that error; and every call that returned gives the client's
\* version and the host as master_address.
C24_GetVersionOutcomes ==
  LET k == version_call
  IN  k.pc \in {"returned", "raised"}
        => /\ k.api.raises = "MasterNotFoundException"
                => /\ k.pc = "returned"
                   /\ k.value.master.version = ""
                   /\ k.value.master.cluster_id = ""
                   /\ k.value.master.master_id = ""
           /\ k.api.raises = "" => (k.pc = "returned" /\ k.value.master = k.api.json)
           /\ k.api.raises = "SSLError" => (k.pc = "raised" /\ k.err = "SSLError")
           /\ k.pc = "returned"
                => /\ k.value.client.version = k.version
                   /\ k.value.master_address = k.host

\* C24 witness: the master was not found and the call has returned.
C24_Witness ==
  /\ version_call.pc = "returned"
  /\ version_call.api.raises = "MasterNotFoundException"
  /\ version_call.host = "localhost:8080"

====
